---- MODULE Spec2Model ----
(***************************************************************************)
(* Model of main.py: one run of the configuration file format converter.   *)
(* main parses the command line, warns when both format tags are equal,    *)
(* calls load_file and then write_file, and exits.  The three parser and   *)
(* serializer libraries (PyYAML, json, toml) are modelled on documents     *)
(* made of lexemes: a lexeme is a word that is written quoted or bare.     *)
(***************************************************************************)
EXTENDS Integers, Sequences, FiniteSets, TLC

MaxLen == 2

\* ------------------------------------------------------------------------
\* Command line (setup_argparse)
\* ------------------------------------------------------------------------
Formats == {"yaml", "json", "toml"}

ArgFormats == Formats \cup {"xml"}

InPath == "a.cfg"

OutPath == "b.cfg"

Paths == {InPath, OutPath}

\* ------------------------------------------------------------------------
\* Generic values: what the parsers return
\* ------------------------------------------------------------------------
Scalar(t, s) == [t |-> t, s |-> s]

Str(s) == Scalar("str", s)

SeqVal(q) == [t |-> "seq", q |-> q]

MapVal(m) == [t |-> "map", m |-> m]

NoVal == [t |-> "none"]

ScalarTypes == {"null", "bool", "int", "float", "str", "date"}

IsScalar(v) == v.t \in ScalarTypes

\* ------------------------------------------------------------------------
\* File contents: documents made of lexemes
\* ------------------------------------------------------------------------
Lex(q, s) == [k |-> "lex", q |-> q, s |-> s]

SeqTree(items) == [k |-> "seq", items |-> items]

MapTree(pairs) == [k |-> "map", pairs |-> pairs]

Doc(tree) == [kind |-> "doc", tree |-> tree]

Empty == [kind |-> "empty"]

Partial == [kind |-> "partial"]

Garbage == [kind |-> "garbage"]

Undecodable == [kind |-> "undecodable"]

NullWords == {"null"}

BoolWords == {"true"}

IntWords == {"1"}

FloatWords == {"1.5"}

DateWords == {"2020-01-01"}

\* ------------------------------------------------------------------------
\* Results of a parser or a serializer call
\* ------------------------------------------------------------------------
NoExc == "none"

Parsed(v) == [exc |-> NoExc, val |-> v]

ParseFail(e) == [exc |-> e, val |-> NoVal]

Dumped(c) == [exc |-> NoExc, content |-> c]

DumpFail(e, c) == [exc |-> e, content |-> c]

\* ------------------------------------------------------------------------
\* yaml.load(f, Loader=SafeLoader)
\* ------------------------------------------------------------------------
YamlResolve(w) ==
    CASE w \in NullWords  -> "null"
      [] w \in BoolWords  -> "bool"
      [] w \in IntWords   -> "int"
      [] w \in FloatWords -> "float"
      [] w \in DateWords  -> "date"
      [] OTHER            -> "str"

YamlScalar(l) == IF l.q THEN Str(l.s) ELSE Scalar(YamlResolve(l.s), l.s)

YamlSub(sub) ==
    IF sub.k = "lex" THEN YamlScalar(sub)
    ELSE SeqVal([i \in DOMAIN sub.items |-> YamlScalar(sub.items[i])])

YamlConstruct(tree) ==
    IF tree.k = "map"
    THEN MapVal([key \in {YamlScalar(kl) : kl \in DOMAIN tree.pairs} |->
            YamlSub(tree.pairs[CHOOSE x \in DOMAIN tree.pairs : YamlScalar(x) = key])])
    ELSE YamlSub(tree)

yaml_load(c) ==
    CASE c.kind = "doc"         -> Parsed(YamlConstruct(c.tree))
      [] c.kind = "empty"       -> Parsed(Scalar("null", "null"))
      [] c.kind = "undecodable" -> ParseFail("UnicodeDecodeError")
      [] OTHER                  -> ParseFail("YAMLError")

\* ------------------------------------------------------------------------
\* json.load(f)
\* ------------------------------------------------------------------------
JsonLiteral(w) == w \in NullWords \cup BoolWords \cup IntWords \cup FloatWords

JsonLexOk(l) == l.q \/ JsonLiteral(l.s)

JsonScalar(l) ==
    IF l.q THEN Str(l.s)
    ELSE CASE l.s \in NullWords -> Scalar("null", l.s)
           [] l.s \in BoolWords -> Scalar("bool", l.s)
           [] l.s \in IntWords  -> Scalar("int", l.s)
           [] OTHER             -> Scalar("float", l.s)

JsonSubOk(sub) ==
    IF sub.k = "lex" THEN JsonLexOk(sub)
    ELSE \A i \in DOMAIN sub.items : JsonLexOk(sub.items[i])

JsonSub(sub) ==
    IF sub.k = "lex" THEN JsonScalar(sub)
    ELSE SeqVal([i \in DOMAIN sub.items |-> JsonScalar(sub.items[i])])

JsonTreeOk(tree) ==
    IF tree.k = "map"
    THEN \A kl \in DOMAIN tree.pairs : kl.q /\ JsonSubOk(tree.pairs[kl])
    ELSE JsonSubOk(tree)

JsonDecode(tree) ==
    IF tree.k = "map"
    THEN MapVal([key \in {Str(kl.s) : kl \in DOMAIN tree.pairs} |->
            JsonSub(tree.pairs[CHOOSE x \in DOMAIN tree.pairs : Str(x.s) = key])])
    ELSE JsonSub(tree)

json_load(c) ==
    CASE c.kind = "doc" /\ JsonTreeOk(c.tree) -> Parsed(JsonDecode(c.tree))
      [] c.kind = "undecodable"               -> ParseFail("UnicodeDecodeError")
      [] OTHER                                -> ParseFail("JSONDecodeError")

\* ------------------------------------------------------------------------
\* toml.load(f).  A document is a table; an array holds values of one type.
\* ------------------------------------------------------------------------
TomlLexOk(l) ==
    l.q \/ l.s \in BoolWords \cup IntWords \cup FloatWords \cup DateWords

TomlScalar(l) ==
    IF l.q THEN Str(l.s)
    ELSE CASE l.s \in BoolWords  -> Scalar("bool", l.s)
           [] l.s \in IntWords   -> Scalar("int", l.s)
           [] l.s \in FloatWords -> Scalar("float", l.s)
           [] OTHER              -> Scalar("date", l.s)

TomlArrayOk(items) ==
    /\ \A i \in DOMAIN items : TomlLexOk(items[i])
    /\ \A i, j \in DOMAIN items : TomlScalar(items[i]).t = TomlScalar(items[j]).t

TomlSubOk(sub) ==
    IF sub.k = "lex" THEN TomlLexOk(sub) ELSE TomlArrayOk(sub.items)

TomlSub(sub) ==
    IF sub.k = "lex" THEN TomlScalar(sub)
    ELSE SeqVal([i \in DOMAIN sub.items |-> TomlScalar(sub.items[i])])

TomlBareKey(w) == w \notin FloatWords

TomlTreeOk(tree) ==
    /\ tree.k = "map"
    /\ \A kl \in DOMAIN tree.pairs :
          (kl.q \/ TomlBareKey(kl.s)) /\ TomlSubOk(tree.pairs[kl])
    /\ \A k1, k2 \in DOMAIN tree.pairs : k1.s = k2.s => k1 = k2

TomlDecode(tree) ==
    MapVal([key \in {Str(kl.s) : kl \in DOMAIN tree.pairs} |->
        TomlSub(tree.pairs[CHOOSE x \in DOMAIN tree.pairs : Str(x.s) = key])])

toml_load(c) ==
    CASE c.kind = "doc" /\ TomlTreeOk(c.tree) -> Parsed(TomlDecode(c.tree))
      [] c.kind = "empty"                     -> Parsed(MapVal(<<>>))
      [] c.kind = "undecodable"               -> ParseFail("UnicodeDecodeError")
      [] OTHER                                -> ParseFail("TomlDecodeError")

\* ------------------------------------------------------------------------
\* yaml.dump(data, f, indent=2).  A string is written plain when the plain
\* word resolves to a string, and quoted otherwise.
\* ------------------------------------------------------------------------
\* a representer that never quotes a string
YamlRepresentPlain(v) == Lex(FALSE, v.s)

YamlRepresentScalar(v) ==
    IF v.t = "str" THEN Lex(YamlResolve(v.s) # "str", v.s) ELSE Lex(FALSE, v.s)

YamlRepresentSub(v) ==
    IF v.t = "seq"
    THEN SeqTree([i \in DOMAIN v.q |-> YamlRepresentScalar(v.q[i])])
    ELSE YamlRepresentScalar(v)

YamlRepresent(v) ==
    IF v.t = "map"
    THEN MapTree([kl \in {YamlRepresentScalar(key) : key \in DOMAIN v.m} |->
            YamlRepresentSub(v.m[CHOOSE x \in DOMAIN v.m : YamlRepresentScalar(x) = kl])])
    ELSE YamlRepresentSub(v)

yaml_dump(v) == Dumped(Doc(YamlRepresent(v)))

\* ------------------------------------------------------------------------
\* json.dump(data, f, indent=2).  The encoder writes chunk by chunk: a value
\* it cannot encode inside a container raises TypeError after the opening
\* chunks were written.
\* ------------------------------------------------------------------------
JsonEncodable(v) == v.t # "date"

JsonEncodeScalar(v) == Lex(v.t = "str", v.s)

JsonSubEncodable(v) ==
    IF v.t = "seq" THEN \A i \in DOMAIN v.q : JsonEncodable(v.q[i])
    ELSE JsonEncodable(v)

JsonEncodeSub(v) ==
    IF v.t = "seq"
    THEN SeqTree([i \in DOMAIN v.q |-> JsonEncodeScalar(v.q[i])])
    ELSE JsonEncodeScalar(v)

JsonAllEncodable(v) ==
    IF v.t = "map"
    THEN \A key \in DOMAIN v.m : JsonEncodable(key) /\ JsonSubEncodable(v.m[key])
    ELSE JsonSubEncodable(v)

JsonEncode(v) ==
    IF v.t = "map"
    THEN MapTree([kl \in {Lex(TRUE, key.s) : key \in DOMAIN v.m} |->
            JsonEncodeSub(v.m[CHOOSE x \in DOMAIN v.m : x.s = kl.s])])
    ELSE JsonEncodeSub(v)

json_dump(v) ==
    IF JsonAllEncodable(v) THEN Dumped(Doc(JsonEncode(v)))
    ELSE DumpFail("TypeError", IF IsScalar(v) THEN Empty ELSE Partial)

\* ------------------------------------------------------------------------
\* toml.dump(data, f).  The encoder iterates over the root and indexes it by
\* the text of each key: a root that is not a mapping raises TypeError unless
\* it is empty, a key that is not a string raises KeyError.  A null value of
\* a key is left out, a null inside a list is written as the string "None".
\* The text is built in full before it is written.
\* ------------------------------------------------------------------------
TomlDumpValue(v) ==
    CASE v.t = "str"  -> Lex(TRUE, v.s)
      [] v.t = "null" -> Lex(TRUE, "None")
      [] OTHER        -> Lex(FALSE, v.s)

TomlDumpSub(v) ==
    IF v.t = "seq"
    THEN SeqTree([i \in DOMAIN v.q |-> TomlDumpValue(v.q[i])])
    ELSE TomlDumpValue(v)

TomlDumpKey(key) == Lex(~TomlBareKey(key.s), key.s)

TomlKept(v) == {key \in DOMAIN v.m : v.m[key].t # "null"}

TomlDumpSections(v) ==
    MapTree([kl \in {TomlDumpKey(key) : key \in TomlKept(v)} |->
        TomlDumpSub(v.m[CHOOSE x \in TomlKept(v) : TomlDumpKey(x) = kl])])

toml_dump(v) ==
    CASE v.t = "map" /\ (\E key \in DOMAIN v.m : key.t # "str") ->
            DumpFail("KeyError", Empty)
      [] v.t = "map" /\ TomlKept(v) = {} -> Dumped(Empty)
      [] v.t = "map" -> Dumped(Doc(TomlDumpSections(v)))
      [] v.t = "seq" /\ Len(v.q) = 0 -> Dumped(Empty)
      [] v.t = "str" /\ v.s = "" -> Dumped(Empty)
      [] OTHER -> DumpFail("TypeError", Empty)

\* ------------------------------------------------------------------------
\* Exception classes and log records
\* ------------------------------------------------------------------------
IsValueError(e) ==
    e \in {"ValueError", "UnicodeDecodeError", "JSONDecodeError", "TomlDecodeError"}

IsFileNotFoundError(e) == e = "FileNotFoundError"

LogRec(level, msg, arg) == [level |-> level, msg |-> msg, arg |-> arg]

ParseErrorMsg(fmt) ==
    CASE fmt = "yaml" -> "Error parsing YAML file: "
      [] fmt = "json" -> "Error parsing JSON file: "
      [] fmt = "toml" -> "Error parsing TOML file: "

WriteErrorMsg(fmt) ==
    CASE fmt = "yaml" -> "Error writing YAML file: "
      [] fmt = "json" -> "Error writing JSON file: "
      [] fmt = "toml" -> "Error writing TOML file: "

\* ------------------------------------------------------------------------
\* Exceptions in flight: the class, the message of a ValueError raised by
\* this program, and the diagnostic of the library or of the system
\* ------------------------------------------------------------------------
Exc(type, msg, arg) == [type |-> type, msg |-> msg, arg |-> arg]

NoException == Exc(NoExc, "", "")

LibExc(e) == Exc(e, "", e)

\* ------------------------------------------------------------------------
\* The file system
\* ------------------------------------------------------------------------
Missing == [st |-> "missing", r |-> FALSE, w |-> FALSE, content |-> Empty]

NoDir == [st |-> "nodir", r |-> FALSE, w |-> FALSE, content |-> Empty]

Dir == [st |-> "dir", r |-> TRUE, w |-> TRUE, content |-> Empty]

File(r, w, c) == [st |-> "file", r |-> r, w |-> w, content |-> c]

OpenRead(f) ==
    CASE f.st \in {"missing", "nodir"} -> "FileNotFoundError"
      [] f.st = "dir"                  -> "IsADirectoryError"
      [] ~f.r                          -> "PermissionError"
      [] OTHER                         -> NoExc

OpenWrite(f) ==
    CASE f.st = "nodir"         -> "FileNotFoundError"
      [] f.st = "dir"           -> "IsADirectoryError"
      [] f.st = "file" /\ ~f.w  -> "PermissionError"
      [] OTHER                  -> NoExc

\* an open that does not truncate
OpenedInPlace(f) == IF f.st = "file" THEN f ELSE File(TRUE, TRUE, Empty)

Truncated(f) == IF f.st = "file" THEN File(f.r, f.w, Empty) ELSE File(TRUE, TRUE, Empty)

\* ------------------------------------------------------------------------
\* load_file: the body of the with block, and the handlers around it
\* ------------------------------------------------------------------------
\* a body that lets the parsers' exceptions through
LoadBodyUnwrapped(fmt, c) ==
    LET r == CASE fmt = "yaml" -> yaml_load(c)
               [] fmt = "json" -> json_load(c)
               [] OTHER        -> toml_load(c)
    IN  [exc |-> IF r.exc = NoExc THEN NoException ELSE LibExc(r.exc), val |-> r.val]

LoadBody(fmt, c) ==
    CASE fmt = "yaml" ->
            LET r == yaml_load(c)
            IN  IF r.exc = "YAMLError"
                THEN [exc |-> Exc("ValueError", ParseErrorMsg(fmt), r.exc), val |-> NoVal]
                ELSE [exc |-> IF r.exc = NoExc THEN NoException ELSE LibExc(r.exc),
                      val |-> r.val]
      [] fmt = "json" ->
            LET r == json_load(c)
            IN  IF r.exc = "JSONDecodeError"
                THEN [exc |-> Exc("ValueError", ParseErrorMsg(fmt), r.exc), val |-> NoVal]
                ELSE [exc |-> IF r.exc = NoExc THEN NoException ELSE LibExc(r.exc),
                      val |-> r.val]
      [] fmt = "toml" ->
            LET r == toml_load(c)
            IN  IF r.exc = "TomlDecodeError"
                THEN [exc |-> Exc("ValueError", ParseErrorMsg(fmt), r.exc), val |-> NoVal]
                ELSE [exc |-> IF r.exc = NoExc THEN NoException ELSE LibExc(r.exc),
                      val |-> r.val]
      [] OTHER ->
            [exc |-> Exc("ValueError", "Unsupported input format: ", fmt), val |-> NoVal]

\* handlers that take every failure to open for a missing file
LoadHandlersAnyOpenError(e, path) ==
    CASE e.type \in {"FileNotFoundError", "IsADirectoryError", "PermissionError"} ->
            <<LogRec("ERROR", "Input file not found: ", path)>>
      [] IsValueError(e.type) -> <<LogRec("ERROR", e.msg, e.arg)>>
      [] OTHER                -> <<>>

LoadHandlers(e, path) ==
    CASE IsFileNotFoundError(e.type) -> <<LogRec("ERROR", "Input file not found: ", path)>>
      [] IsValueError(e.type)        -> <<LogRec("ERROR", e.msg, e.arg)>>
      [] OTHER                       -> <<>>

\* ------------------------------------------------------------------------
\* write_file: the body of the with block, and the handlers around it.  Each
\* branch rewraps the one exception class its except clause names; toml.dump
\* raises TypeError and KeyError, which the clause of the toml branch does
\* not name.
\* ------------------------------------------------------------------------
WriteBody(fmt, v) ==
    CASE fmt = "yaml" ->
            LET r == yaml_dump(v)
            IN  IF r.exc = "YAMLError"
                THEN [exc |-> Exc("ValueError", WriteErrorMsg(fmt), r.exc), content |-> r.content]
                ELSE [exc |-> IF r.exc = NoExc THEN NoException ELSE LibExc(r.exc),
                      content |-> r.content]
      [] fmt = "json" ->
            LET r == json_dump(v)
            IN  IF r.exc = "TypeError"
                THEN [exc |-> Exc("ValueError", WriteErrorMsg(fmt), r.exc), content |-> r.content]
                ELSE [exc |-> IF r.exc = NoExc THEN NoException ELSE LibExc(r.exc),
                      content |-> r.content]
      [] fmt = "toml" ->
            LET r == toml_dump(v)
            IN  IF r.exc = "TomlEncodeError"
                THEN [exc |-> Exc("ValueError", WriteErrorMsg(fmt), r.exc), content |-> r.content]
                ELSE [exc |-> IF r.exc = NoExc THEN NoException ELSE LibExc(r.exc),
                      content |-> r.content]
      [] OTHER ->
            [exc |-> Exc("ValueError", "Unsupported output format: ", fmt), content |-> Empty]

WriteHandlers(e) ==
    IF IsValueError(e.type)
    THEN <<LogRec("ERROR", e.msg, e.arg)>>
    ELSE <<LogRec("ERROR", "An unexpected error occurred: ", e.arg)>>

\* ------------------------------------------------------------------------
\* main: the handlers around the two calls
\* ------------------------------------------------------------------------
\* handlers of main that log nothing
MainHandlersSilent(e) == <<>>

MainHandlers(e) ==
    CASE IsFileNotFoundError(e.type) -> <<>>
      [] IsValueError(e.type)        -> <<>>
      [] OTHER -> <<LogRec("ERROR", "An unexpected error occurred: ", e.arg)>>

\* ------------------------------------------------------------------------
\* The inputs of a run
\* ------------------------------------------------------------------------
ValueLexemes ==
    {Lex(FALSE, w) : w \in {"null", "true", "1", "1.5", "a", "2020-01-01"}}
        \cup {Lex(TRUE, w) : w \in {"a", "true", "1"}}

KeyLexemes == {Lex(FALSE, "a"), Lex(FALSE, "1"), Lex(TRUE, "1")}

SeqTrees == {SeqTree(items) : items \in UNION {[1..n -> ValueLexemes] : n \in 0..MaxLen}}

MapTrees ==
    {MapTree(<<>>)}
        \cup {MapTree(kl :> sub) : kl \in KeyLexemes, sub \in ValueLexemes \cup SeqTrees}
        \cup {MapTree((k[1] :> l[1]) @@ (k[2] :> l[2])) :
                k \in {kk \in KeyLexemes \X KeyLexemes : kk[1].s # kk[2].s},
                l \in ValueLexemes \X ValueLexemes}

Trees == ValueLexemes \cup SeqTrees \cup MapTrees

InputContents == {Doc(t) : t \in Trees} \cup {Empty, Garbage, Undecodable}

OldContent == Doc(Lex(TRUE, "old"))

Args(inf, outf, infmt, outfmt) ==
    [input_file |-> inf, output_file |-> outf, input_format |-> infmt, output_format |-> outfmt]

VARIABLES pc, args, fs, inOpen, outOpen, data, exc, log, exitCode, loadCalls, writeCalls

vars == <<pc, args, fs, inOpen, outOpen, data, exc, log, exitCode, loadCalls, writeCalls>>

Init ==
    /\ pc = "parse_args"
    /\ inOpen = FALSE
    /\ outOpen = FALSE
    /\ data = NoVal
    /\ exc = NoException
    /\ log = <<>>
    /\ exitCode = 0
    /\ loadCalls = 0
    /\ writeCalls = 0
    /\ \/ \* rejected command lines
          /\ \E infmt, outfmt \in ArgFormats :
                /\ infmt \notin Formats \/ outfmt \notin Formats
                /\ args = Args(InPath, OutPath, infmt, outfmt)
          /\ fs = (InPath :> File(TRUE, TRUE, Empty)) @@ (OutPath :> Missing)
       \/ \* input and output are the same file
          /\ \E infmt, outfmt \in Formats : args = Args(InPath, InPath, infmt, outfmt)
          /\ \E f \in {Missing, Dir, File(FALSE, TRUE, Garbage)}
                    \cup {File(TRUE, w, c) : w \in BOOLEAN, c \in InputContents} :
                fs = (InPath :> f) @@ (OutPath :> Missing)
       \/ \* input and output are two files
          /\ \E infmt, outfmt \in Formats : args = Args(InPath, OutPath, infmt, outfmt)
          /\ \E f \in {Missing, Dir, File(FALSE, TRUE, Garbage)}
                    \cup {File(TRUE, TRUE, c) : c \in InputContents},
                o \in {Missing, NoDir, File(TRUE, FALSE, OldContent),
                       File(TRUE, TRUE, OldContent)} :
                fs = (InPath :> f) @@ (OutPath :> o)

\* ------------------------------------------------------------------------
\* main
\* ------------------------------------------------------------------------
\* parser.parse_args(): argparse exits with status 2 on a format tag outside
\* the choices
ParseArgs ==
    /\ pc = "parse_args"
    /\ IF args.input_format \in Formats /\ args.output_format \in Formats
       THEN pc' = "check_formats" /\ exitCode' = exitCode
       ELSE pc' = "exited" /\ exitCode' = 2
    /\ UNCHANGED <<args, fs, inOpen, outOpen, data, exc, log, loadCalls, writeCalls>>

\* an advisory that does not compare the tags
CheckFormatsAlways ==
    /\ pc = "check_formats"
    /\ log' = Append(log, LogRec("WARNING",
                  "Input and output formats are the same.  No conversion will occur.", ""))
    /\ pc' = "load_open"
    /\ UNCHANGED <<args, fs, inOpen, outOpen, data, exc, exitCode, loadCalls, writeCalls>>

\* the advisory when both tags are equal
CheckFormats ==
    /\ pc = "check_formats"
    /\ log' = IF args.input_format = args.output_format
              THEN Append(log, LogRec("WARNING",
                       "Input and output formats are the same.  No conversion will occur.", ""))
              ELSE log
    /\ pc' = "load_open"
    /\ UNCHANGED <<args, fs, inOpen, outOpen, data, exc, exitCode, loadCalls, writeCalls>>

\* load_file is called and opens the input
LoadOpen ==
    /\ pc = "load_open"
    /\ loadCalls' = loadCalls + 1
    /\ LET e == OpenRead(fs[args.input_file])
       IN  IF e = NoExc
           THEN /\ inOpen' = TRUE
                /\ pc' = "load_parse"
                /\ UNCHANGED <<exc, log>>
           ELSE /\ inOpen' = FALSE
                /\ exc' = LibExc(e)
                /\ log' = log \o LoadHandlers(LibExc(e), args.input_file)
                /\ pc' = "main_except"
    /\ UNCHANGED <<args, fs, outOpen, data, exitCode, writeCalls>>

\* a load_file that keeps the input open when the parser raises
LoadParseLeak ==
    /\ pc = "load_parse"
    /\ LET r == LoadBody(args.input_format, fs[args.input_file].content)
       IN  IF r.exc = NoException
           THEN /\ inOpen' = FALSE
                /\ data' = r.val
                /\ pc' = "write_open"
                /\ UNCHANGED <<exc, log>>
           ELSE /\ inOpen' = TRUE
                /\ exc' = r.exc
                /\ log' = log \o LoadHandlers(r.exc, args.input_file)
                /\ pc' = "main_except"
                /\ UNCHANGED data
    /\ UNCHANGED <<args, fs, outOpen, exitCode, loadCalls, writeCalls>>

\* a load_file that logs a parse failure and returns None
LoadParseReturnsNone ==
    /\ pc = "load_parse"
    /\ LET r == LoadBody(args.input_format, fs[args.input_file].content)
       IN  /\ inOpen' = FALSE
           /\ pc' = "write_open"
           /\ IF r.exc = NoException
              THEN /\ data' = r.val
                   /\ UNCHANGED log
              ELSE /\ data' = Scalar("null", "null")
                   /\ log' = log \o LoadHandlers(r.exc, args.input_file)
    /\ UNCHANGED <<args, fs, outOpen, exc, exitCode, loadCalls, writeCalls>>

\* load_file parses, leaves the with block and returns or raises
LoadParse ==
    /\ pc = "load_parse"
    /\ LET r == LoadBody(args.input_format, fs[args.input_file].content)
       IN  /\ inOpen' = FALSE
           /\ IF r.exc = NoException
              THEN /\ data' = r.val
                   /\ pc' = "write_open"
                   /\ UNCHANGED <<exc, log>>
              ELSE /\ exc' = r.exc
                   /\ log' = log \o LoadHandlers(r.exc, args.input_file)
                   /\ pc' = "main_except"
                   /\ UNCHANGED data
    /\ UNCHANGED <<args, fs, outOpen, exitCode, loadCalls, writeCalls>>

\* write_file is called and opens the output, which truncates it
WriteOpen ==
    /\ pc = "write_open"
    /\ writeCalls' = writeCalls + 1
    /\ LET e == OpenWrite(fs[args.output_file])
       IN  IF e = NoExc
           THEN /\ fs' = [fs EXCEPT ![args.output_file] = Truncated(@)]
                /\ outOpen' = TRUE
                /\ pc' = "write_dump"
                /\ UNCHANGED <<exc, log>>
           ELSE /\ outOpen' = FALSE
                /\ exc' = LibExc(e)
                /\ log' = log \o WriteHandlers(LibExc(e))
                /\ pc' = "main_except"
                /\ UNCHANGED fs
    /\ UNCHANGED <<args, inOpen, data, exitCode, loadCalls>>

\* write_file serializes, leaves the with block and returns or raises; the
\* system may fail any write (disk full)
WriteDump ==
    /\ pc = "write_dump"
    /\ \E io \in {"ok", "fail_empty", "fail_partial"} :
          LET b == WriteBody(args.output_format, data)
              r == CASE b.exc # NoException -> b
                     [] io = "fail_empty"   -> [exc |-> LibExc("OSError"), content |-> Empty]
                     [] io = "fail_partial" -> [exc |-> LibExc("OSError"), content |-> Partial]
                     [] OTHER               -> b
          IN  /\ fs' = [fs EXCEPT ![args.output_file].content =
                                   IF r.content = Empty THEN @ ELSE r.content]
              /\ outOpen' = FALSE
              /\ IF r.exc = NoException
                 THEN /\ pc' = "log_success"
                      /\ UNCHANGED <<exc, log>>
                 ELSE /\ exc' = r.exc
                      /\ log' = log \o WriteHandlers(r.exc)
                      /\ pc' = "main_except"
    /\ UNCHANGED <<args, inOpen, data, exitCode, loadCalls, writeCalls>>

\* the success line, and main returns
LogSuccess ==
    /\ pc = "log_success"
    /\ log' = Append(log, LogRec("INFO", "Successfully converted ", args.input_file))
    /\ pc' = "exited"
    /\ exitCode' = 0
    /\ UNCHANGED <<args, fs, inOpen, outOpen, data, exc, loadCalls, writeCalls>>

\* except clauses of which the ValueError one does not exit
MainExceptFallsThrough ==
    /\ pc = "main_except"
    /\ log' = log \o MainHandlers(exc)
    /\ pc' = "exited"
    /\ exitCode' = IF IsValueError(exc.type) THEN 0 ELSE 1
    /\ UNCHANGED <<args, fs, inOpen, outOpen, data, exc, loadCalls, writeCalls>>

\* the except clauses of main
MainExcept ==
    /\ pc = "main_except"
    /\ log' = log \o MainHandlers(exc)
    /\ pc' = "exited"
    /\ exitCode' = 1
    /\ UNCHANGED <<args, fs, inOpen, outOpen, data, exc, loadCalls, writeCalls>>

Next ==
    \/ ParseArgs
    \/ CheckFormats
    \/ LoadOpen
    \/ LoadParse
    \/ WriteOpen
    \/ WriteDump
    \/ LogSuccess
    \/ MainExcept

Spec == Init /\ [][Next]_vars

\* ------------------------------------------------------------------------
\* Vocabulary of the properties
\* ------------------------------------------------------------------------
Accepted == args.input_format \in Formats /\ args.output_format \in Formats

SameTags == args.input_format = args.output_format

Logged(level, msg) == \E i \in DOMAIN log : log[i].level = level /\ log[i].msg = msg

LoggedLevel(level) == \E i \in DOMAIN log : log[i].level = level

CountLevel(level) == Cardinality({i \in DOMAIN log : log[i].level = level})

OpenErrors == {"FileNotFoundError", "IsADirectoryError", "PermissionError"}

SystemErrors == OpenErrors \cup {"OSError"}

LoadCompleted == loadCalls = 1 /\ data # NoVal

WriteCompleted == writeCalls = 1 /\ exc = NoException /\ pc \in {"log_success", "exited"}

\* ------------------------------------------------------------------------
\* C1: a run whose arguments were accepted exits with 0 exactly when
\* load_file and write_file both completed without raising, and with 1 in
\* every other case.
\* ------------------------------------------------------------------------
C1_ExitCode ==
    (pc = "exited" /\ Accepted) =>
        /\ exitCode \in {0, 1}
        /\ exitCode = 0 <=> (LoadCompleted /\ WriteCompleted)

C1_Witness ==
    /\ pc = "exited" /\ Accepted /\ exitCode = 1
    /\ writeCalls = 1 /\ exc.type = "ValueError"

\* ------------------------------------------------------------------------
\* C2: for each declared input format, content that can be read but is not
\* valid syntax for the format makes load_file raise a ValueError whose
\* message names the format and carries the parser's diagnostic; the
\* message is logged, write_file is never called and the run exits with 1.
\* ------------------------------------------------------------------------
DecodeError(fmt) ==
    CASE fmt = "yaml" -> "YAMLError"
      [] fmt = "json" -> "JSONDecodeError"
      [] fmt = "toml" -> "TomlDecodeError"

LibLoad(fmt, c) ==
    CASE fmt = "yaml" -> yaml_load(c)
      [] fmt = "json" -> json_load(c)
      [] fmt = "toml" -> toml_load(c)

InvalidSyntax(fmt, c) == LibLoad(fmt, c).exc = DecodeError(fmt)

IsParseError(e, fmt) ==
    /\ e.type = "ValueError"
    /\ e.msg = ParseErrorMsg(fmt)
    /\ e.arg = DecodeError(fmt)

C2_ParseError ==
    /\ [][(pc = "load_parse"
             /\ InvalidSyntax(args.input_format, fs[args.input_file].content))
          => (/\ IsParseError(exc', args.input_format)
              /\ log' = Append(log, LogRec("ERROR", ParseErrorMsg(args.input_format),
                                           DecodeError(args.input_format)))
              /\ pc' = "main_except")]_vars
    /\ []((pc \in {"main_except", "exited"} /\ IsParseError(exc, args.input_format))
          => (/\ writeCalls = 0
              /\ Logged("ERROR", ParseErrorMsg(args.input_format))
              /\ pc = "exited" => exitCode = 1))

C2_Witness ==
    /\ pc = "exited" /\ exitCode = 1 /\ writeCalls = 0
    /\ args.input_format = "toml"
    /\ fs[args.input_file].content.kind = "doc"
    /\ IsParseError(exc, "toml")

\* ------------------------------------------------------------------------
\* C3 as stated: whenever the input path cannot be opened for reading (it
\* does not exist, or it exists and is unreadable), the message logged is
\* "Input file not found: <path>" and the run exits with 1.
\* ------------------------------------------------------------------------
InputNotOpened ==
    /\ pc \in {"main_except", "exited"}
    /\ writeCalls = 0
    /\ OpenRead(fs[args.input_file]) # NoExc

C3_Original ==
    InputNotOpened =>
        /\ Logged("ERROR", "Input file not found: ")
        /\ pc = "exited" => exitCode = 1

\* ------------------------------------------------------------------------
\* C3 as amended: when the input path does not exist, load_file logs
\* "Input file not found: <path>" and the run exits with 1; when the path
\* exists but cannot be opened (a directory, permission denied), load_file
\* logs nothing, main logs "An unexpected error occurred: ..." and the run
\* exits with 1.
\* ------------------------------------------------------------------------
C3_NotFound ==
    InputNotOpened =>
        /\ pc = "exited" => exitCode = 1
        /\ IF fs[args.input_file].st = "missing"
           THEN /\ Logged("ERROR", "Input file not found: ")
                /\ CountLevel("ERROR") = 1
           ELSE /\ ~Logged("ERROR", "Input file not found: ")
                /\ pc = "main_except" => ~LoggedLevel("ERROR")
                /\ pc = "exited" =>
                      /\ Logged("ERROR", "An unexpected error occurred: ")
                      /\ CountLevel("ERROR") = 1

C3_Witness ==
    /\ pc = "exited" /\ exitCode = 1
    /\ fs[args.input_file].st = "file" /\ ~fs[args.input_file].r
    /\ Logged("ERROR", "An unexpected error occurred: ")

\* ------------------------------------------------------------------------
\* C4: for every loaded value whose root is not a mapping (null, boolean,
\* number, string or sequence), write_file with target toml fails with the
\* ValueError "Error writing TOML file: ..." and the run exits with 1, while
\* write_file of the same value with target yaml or json succeeds and the
\* run exits with 0.
\* ------------------------------------------------------------------------
GenericScalarTypes == {"null", "bool", "int", "float", "str"}

NonMappingRoot(v) ==
    \/ v.t \in GenericScalarTypes
    \/ v.t = "seq" /\ \A i \in DOMAIN v.q : v.q[i].t \in GenericScalarTypes

C4_ShapeRejection ==
    (pc = "exited" /\ LoadCompleted /\ NonMappingRoot(data)
        /\ exc.type \notin SystemErrors) =>
        IF args.output_format = "toml"
        THEN /\ exitCode = 1
             /\ exc.type = "ValueError"
             /\ exc.msg = WriteErrorMsg("toml")
        ELSE exitCode = 0

\* ------------------------------------------------------------------------
\* C5 as stated: equal format tags give exactly one WARNING before
\* load_file is called, the run then proceeds as usual and, for a valid
\* input, ends with the success INFO line and exit code 0, also when the
\* output path is the input path; different tags give no advisory.
\* ------------------------------------------------------------------------
Advisory ==
    /\ pc = "check_formats" => (log = <<>> /\ loadCalls = 0)
    /\ (pc \notin {"parse_args", "check_formats"} /\ Accepted /\ SameTags) =>
          (CountLevel("WARNING") = 1 /\ log[1].level = "WARNING")
    /\ ~SameTags => ~LoggedLevel("WARNING")
    /\ outOpen => ~inOpen

SuccessLine ==
    /\ exitCode = 0
    /\ log[Len(log)].level = "INFO"
    /\ loadCalls = 1
    /\ writeCalls = 1
    /\ fs[args.output_file].st = "file"
    /\ LibLoad(args.output_format, fs[args.output_file].content).exc = NoExc

CommonScalarTypes == {"bool", "int", "float", "str"}

Expressible(v) ==
    /\ v.t = "map"
    /\ \A key \in DOMAIN v.m :
          /\ key.t = "str"
          /\ \/ v.m[key].t \in CommonScalarTypes
             \/ /\ v.m[key].t = "seq"
                /\ \A i \in DOMAIN v.m[key].q : v.m[key].q[i].t \in CommonScalarTypes
                /\ \A i, j \in DOMAIN v.m[key].q : v.m[key].q[i].t = v.m[key].q[j].t

C6_RoundTrip ==
    (/\ pc \in {"main_except", "log_success", "exited"}
     /\ writeCalls = 1
     /\ Expressible(data)
     /\ exc.type \notin SystemErrors) =>
        /\ exc = NoException
        /\ LoadBody(args.output_format, fs[args.output_file].content)
              = [exc |-> NoException, val |-> data]

C6_Witness ==
    /\ pc = "exited" /\ exitCode = 0
    /\ args.input_format = "yaml" /\ args.output_format = "toml"
    /\ Expressible(data)
    /\ \E key \in DOMAIN data.m :
          /\ key = Str("1")
          /\ data.m[key] = SeqVal(<<Str("true"), Str("1")>>)

\* ------------------------------------------------------------------------
\* C7: every run that exits with 1 has logged at least one ERROR message
\* before it exits, whichever call raised and whatever the exception; a run
\* that logs the success INFO line has logged no ERROR message.
\* ------------------------------------------------------------------------
C7_ErrorLogged ==
    /\ (pc = "exited" /\ Accepted /\ exitCode = 1) => LoggedLevel("ERROR")
    /\ Logged("INFO", "Successfully converted ") => ~LoggedLevel("ERROR")

C7_Witness ==
    /\ pc = "exited" /\ exitCode = 1
    /\ loadCalls = 1 /\ writeCalls = 0
    /\ exc.type = "IsADirectoryError"
    /\ LoggedLevel("ERROR")

\* ------------------------------------------------------------------------
\* C8: write_file truncates the output before it serializes anything and
\* nothing restores it: when serialization fails after the open, the run
\* exits with 1 and the output file exists with its previous contents
\* replaced by empty or partial content; when the output path is the input
\* path the input document is lost.
\* ------------------------------------------------------------------------
C8_Truncated ==
    /\ pc = "write_dump" =>
          (fs[args.output_file].st = "file" /\ fs[args.output_file].content = Empty)
    /\ (pc \in {"main_except", "exited"} /\ writeCalls = 1
          /\ exc # NoException /\ exc.type \notin OpenErrors) =>
          /\ fs[args.output_file].st = "file"
          /\ fs[args.output_file].content \in {Empty, Partial}
          /\ pc = "exited" => exitCode = 1

C8_Witness ==
    /\ pc = "exited" /\ exitCode = 1
    /\ args.output_file = args.input_file
    /\ args.input_format = "json" /\ args.output_format = "toml"
    /\ data = SeqVal(<<Scalar("int", "1")>>)
    /\ exc.type = "TypeError"
    /\ fs[args.input_file].content = Empty

\* ------------------------------------------------------------------------
\* C9: at most one file handle is open in any state; the input handle is
\* open only inside load_file and the output handle only inside write_file,
\* each released on the success and on the failure exit, and none is open
\* when the run logs success or exits.
\* ------------------------------------------------------------------------
C9_Handles ==
    /\ ~(inOpen /\ outOpen)
    /\ inOpen => pc = "load_parse"
    /\ outOpen => pc = "write_dump"
    /\ pc \in {"write_open", "main_except", "log_success", "exited"} =>
          (~inOpen /\ ~outOpen)

C9_Witness ==
    /\ pc = "main_except"
    /\ writeCalls = 1
    /\ exc.type = "ValueError"
    /\ fs[args.output_file].content = Partial
    /\ ~inOpen /\ ~outOpen

\* ------------------------------------------------------------------------
\* C10: write_file is called only after load_file has returned a value, and
\* each at most once; when load_file fails the output path is never opened,
\* created or truncated, the files keep their contents and the success line
\* is not logged.
\* ------------------------------------------------------------------------
LoadFails ==
    \/ OpenRead(fs[args.input_file]) # NoExc
    \/ LoadBody(args.input_format, fs[args.input_file].content).exc # NoException

C10_WriteAfterLoad ==
    /\ [](/\ loadCalls <= 1
          /\ writeCalls <= 1
          /\ writeCalls = 1 => (loadCalls = 1 /\ data # NoVal /\ Accepted))
    /\ [][(writeCalls = 0 /\ LoadFails) =>
             (/\ writeCalls' = 0
              /\ fs' = fs
              /\ pc' # "log_success"
              /\ ~Logged("INFO", "Successfully converted ")')]_vars

C10_Witness ==
    /\ pc = "exited" /\ exitCode = 1
    /\ writeCalls = 0 /\ loadCalls = 1
    /\ args.output_file = OutPath
    /\ fs[OutPath] = File(TRUE, TRUE, OldContent)
    /\ exc.type = "ValueError"

====
